---- MODULE Spec2Model ----
(***************************************************************************)
(* Read-live: the in-browser book reader (BookReader.tsx) and its content  *)
(* pipeline: source selection, retrieval through the relay chain, format   *)
(* normalisation, pagination, and the reading session's navigation.        *)
(*                                                                         *)
(* Text is a sequence of lexemes (strings).  A lexeme is one whitespace    *)
(* character, one of the markup characters < > / & ; or a maximal run of   *)
(* other characters (a tag name, an entity name, a word).  A word-run      *)
(* lexeme ("w150") stands for that many lower-case words separated by      *)
(* single spaces; none of its words starts with a letter of [ivxlc].       *)
(***************************************************************************)
EXTENDS Integers, Sequences, FiniteSets, TLC

----------------------------------------------------------------------------
(* Lexeme classes: what the regular expressions of processBookContent test *)

Blank == {" ", "\t"}

LineBreak == {"\n", "\r"}

Whitespace == Blank \cup LineBreak

ScriptNames == {"script", "SCRIPT"}

StyleNames == {"style", "STYLE"}

HeadingNames == {"h1", "h2", "h3", "h4", "h5", "h6", "H1", "H2"}

ParaNames == {"p", "P"}

ParaStartNames == {"p", "P", "pre"}

BreakNames == {"br", "BR"}

ChapterWords == {"CHAPTER", "Chapter", "chapter"}

\* the lexemes whose first character is in [IVXLC\d], case-insensitively
RomanStart ==
    {"I", "II", "IV", "X", "1", "2", "12", "is", "in",
     "CHAPTER", "Chapter", "chapter", "CONTENTS"}

runWords ==
    [w1 |-> 1, w2 |-> 2, w3 |-> 3, w4 |-> 4, w5 |-> 5, w6 |-> 6, w7 |-> 7,
     w8 |-> 8, w9 |-> 9, w10 |-> 10, w11 |-> 11, w12 |-> 12, w13 |-> 13,
     w14 |-> 14, w15 |-> 15, w16 |-> 16, w18 |-> 18, w21 |-> 21, w23 |-> 23,
     w150 |-> 150, w250 |-> 250, w300 |-> 300, w450 |-> 450]

upperLen ==
    [CHAPTER |-> 7, I |-> 1, II |-> 2, IV |-> 2, X |-> 1, THE |-> 3,
     END |-> 3, PROLOGUE |-> 8, CONTENTS |-> 8]

UpperWords == DOMAIN upperLen

NonWordStart ==
    Whitespace \cup {"<", ">", "/", "&", ";", "===", "\"", "'",
                     "{\"contents\":\"", "\"}", "\\n", "\\r", "\\t", "\\\""}

WordsIn(t) == IF t \in DOMAIN runWords THEN runWords[t] ELSE 1

CharLen(t) == IF t \in UpperWords THEN upperLen[t] ELSE 1

\* The element of a one-element set.  {e(x) : x \in {v}} names the value v
\* inside e, and v is computed once however often e uses x.
The(S) == CHOOSE x \in S : TRUE

FirstIdx(S) == IF S = {} THEN 0 ELSE CHOOSE j \in S : \A k \in S : j <= k

LastIdx(S) == IF S = {} THEN 0 ELSE CHOOSE j \in S : \A k \in S : k <= j

\* the first index >= i whose lexeme is not in cls (Len(s)+1 if none)
SkipWhile(s, i, cls) ==
    LET rest == {j \in i..Len(s) : s[j] \notin cls}
    IN  IF rest = {} THEN Len(s) + 1 ELSE FirstIdx(rest)

FirstGt(s, i) == FirstIdx({j \in i..Len(s) : s[j] = ">"})

CloseAt(s, i, names) ==
    /\ i + 3 <= Len(s)
    /\ s[i] = "<" /\ s[i+1] = "/" /\ s[i+2] \in names /\ s[i+3] = ">"

FirstClose(s, i, names) == FirstIdx({j \in i..Len(s) : CloseAt(s, j, names)})

\* Every s.replace(/re/g, ...) below is a scan from index i: XEnd(s, j) is
\* the last index of the match that starts at j (0 when there is none);
\* matches are taken leftmost first and do not overlap.
Banner(capture) ==
    <<"\n", "\n", "===", " ">> \o capture \o <<" ", "===", "\n", "\n">>

----------------------------------------------------------------------------
(* processBookContent, markup branch: one operator per .replace() call     *)

\* /<script\b[^<]*(?:(?!<\/script>)<[^<]*)*<\/script>/gi and the same for style
BlockEnd(s, j, names) ==
    IF /\ j + 1 <= Len(s)
       /\ s[j] = "<" /\ s[j+1] \in names
       /\ (j + 2 <= Len(s) => s[j+2] \in NonWordStart)
    THEN LET c == FirstClose(s, j + 2, names)
         IN  IF c = 0 THEN 0 ELSE c + 3
    ELSE 0

RECURSIVE StripBlocks(_, _, _)
StripBlocks(s, i, names) ==
    The({IF m = 0 THEN SubSeq(s, i, Len(s))
         ELSE SubSeq(s, i, m - 1)
              \o StripBlocks(s, BlockEnd(s, m, names) + 1, names)
         : m \in {FirstIdx({j \in i..Len(s) : BlockEnd(s, j, names) # 0})}})

\* /<h[1-6][^>]*>(.*?)<\/h[1-6]>/gi -> '\n\n=== $1 ===\n\n'
HeadingEnd(s, j) ==
    IF j + 1 <= Len(s) /\ s[j] = "<" /\ s[j+1] \in HeadingNames
    THEN LET gt == FirstGt(s, j + 2)
             c == IF gt = 0 THEN 0 ELSE FirstClose(s, gt + 1, HeadingNames)
         IN  IF /\ gt # 0 /\ c # 0
                /\ \A k \in (gt + 1)..(c - 1) : s[k] \notin LineBreak
             THEN c + 3
             ELSE 0
    ELSE 0

HeadingBanner(s, j, e) == Banner(SubSeq(s, FirstGt(s, j + 2) + 1, e - 4))

RECURSIVE Headings(_, _)
Headings(s, i) ==
    The({IF m = 0 THEN SubSeq(s, i, Len(s))
         ELSE SubSeq(s, i, m - 1) \o HeadingBanner(s, m, HeadingEnd(s, m))
              \o Headings(s, HeadingEnd(s, m) + 1)
         : m \in {FirstIdx({j \in i..Len(s) : HeadingEnd(s, j) # 0})}})

\* /<\/p>/gi -> '\n\n'
CloseParaEnd(s, j) == IF CloseAt(s, j, ParaNames) THEN j + 3 ELSE 0

RECURSIVE CloseParas(_, _)
CloseParas(s, i) ==
    The({IF m = 0 THEN SubSeq(s, i, Len(s))
         ELSE SubSeq(s, i, m - 1) \o <<"\n", "\n">>
              \o CloseParas(s, CloseParaEnd(s, m) + 1)
         : m \in {FirstIdx({j \in i..Len(s) : CloseParaEnd(s, j) # 0})}})

\* /<p[^>]*>/gi -> ''
OpenParaEnd(s, j) ==
    IF j + 1 <= Len(s) /\ s[j] = "<" /\ s[j+1] \in ParaStartNames
    THEN FirstGt(s, j + 2)
    ELSE 0

RECURSIVE OpenParas(_, _)
OpenParas(s, i) ==
    The({IF m = 0 THEN SubSeq(s, i, Len(s))
         ELSE SubSeq(s, i, m - 1)
              \o OpenParas(s, OpenParaEnd(s, m) + 1)
         : m \in {FirstIdx({j \in i..Len(s) : OpenParaEnd(s, j) # 0})}})

\* /<br\s*\/?>/gi -> '\n'
BreakEnd(s, j) ==
    IF j + 1 <= Len(s) /\ s[j] = "<" /\ s[j+1] \in BreakNames
    THEN LET k == SkipWhile(s, j + 2, Whitespace)
             g == IF k <= Len(s) /\ s[k] = "/" THEN k + 1 ELSE k
         IN  IF g <= Len(s) /\ s[g] = ">" THEN g ELSE 0
    ELSE 0

RECURSIVE Breaks(_, _)
Breaks(s, i) ==
    The({IF m = 0 THEN SubSeq(s, i, Len(s))
         ELSE SubSeq(s, i, m - 1) \o <<"\n">>
              \o Breaks(s, BreakEnd(s, m) + 1)
         : m \in {FirstIdx({j \in i..Len(s) : BreakEnd(s, j) # 0})}})

\* /<[^>]+>/g -> ''
TagEnd(s, j) ==
    IF s[j] = "<"
    THEN LET gt == FirstGt(s, j + 1) IN IF gt >= j + 2 THEN gt ELSE 0
    ELSE 0

RECURSIVE StripTags(_, _)
StripTags(s, i) ==
    The({IF m = 0 THEN SubSeq(s, i, Len(s))
         ELSE SubSeq(s, i, m - 1)
              \o StripTags(s, TagEnd(s, m) + 1)
         : m \in {FirstIdx({j \in i..Len(s) : TagEnd(s, j) # 0})}})

\* /&name;/g -> out
EntityEnd(s, j, name) ==
    IF j + 2 <= Len(s) /\ s[j] = "&" /\ s[j+1] = name /\ s[j+2] = ";"
    THEN j + 2
    ELSE 0

RECURSIVE Entity(_, _, _, _)
Entity(s, i, name, out) ==
    The({IF m = 0 THEN SubSeq(s, i, Len(s))
         ELSE SubSeq(s, i, m - 1) \o <<out>>
              \o Entity(s, EntityEnd(s, m, name) + 1, name, out)
         : m \in {FirstIdx({j \in i..Len(s) : EntityEnd(s, j, name) # 0})}})

\* /[ \t]+/g -> ' '
BlankRunEnd(s, j) ==
    IF s[j] \in Blank THEN SkipWhile(s, j, Blank) - 1 ELSE 0

RECURSIVE CollapseBlanks(_, _)
CollapseBlanks(s, i) ==
    The({IF m = 0 THEN SubSeq(s, i, Len(s))
         ELSE SubSeq(s, i, m - 1) \o <<" ">>
              \o CollapseBlanks(s, BlankRunEnd(s, m) + 1)
         : m \in {FirstIdx({j \in i..Len(s) : BlankRunEnd(s, j) # 0})}})

\* /\n[ \t]+/g -> '\n'
AfterNewlineEnd(s, j) ==
    IF s[j] = "\n" /\ j + 1 <= Len(s) /\ s[j+1] \in Blank
    THEN SkipWhile(s, j + 1, Blank) - 1
    ELSE 0

RECURSIVE BlanksAfterNewline(_, _)
BlanksAfterNewline(s, i) ==
    The({IF m = 0 THEN SubSeq(s, i, Len(s))
         ELSE SubSeq(s, i, m - 1) \o <<"\n">>
              \o BlanksAfterNewline(s, AfterNewlineEnd(s, m) + 1)
         : m \in {FirstIdx({j \in i..Len(s) : AfterNewlineEnd(s, j) # 0})}})

\* /[ \t]+\n/g -> '\n'
BeforeNewlineEnd(s, j) ==
    IF s[j] \in Blank
    THEN LET k == SkipWhile(s, j, Blank)
         IN  IF k <= Len(s) /\ s[k] = "\n" THEN k ELSE 0
    ELSE 0

RECURSIVE BlanksBeforeNewline(_, _)
BlanksBeforeNewline(s, i) ==
    The({IF m = 0 THEN SubSeq(s, i, Len(s))
         ELSE SubSeq(s, i, m - 1) \o <<"\n">>
              \o BlanksBeforeNewline(s, BeforeNewlineEnd(s, m) + 1)
         : m \in {FirstIdx({j \in i..Len(s) : BeforeNewlineEnd(s, j) # 0})}})

\* /\n{3,}/g -> '\n\n'
NewlineRunEnd(s, j) ==
    IF s[j] = "\n"
    THEN LET k == SkipWhile(s, j, {"\n"}) IN IF k - j >= 3 THEN k - 1 ELSE 0
    ELSE 0

RECURSIVE CollapseNewlines(_, _)
CollapseNewlines(s, i) ==
    The({IF m = 0 THEN SubSeq(s, i, Len(s))
         ELSE SubSeq(s, i, m - 1) \o <<"\n", "\n">>
              \o CollapseNewlines(s, NewlineRunEnd(s, m) + 1)
         : m \in {FirstIdx({j \in i..Len(s) : NewlineRunEnd(s, j) # 0})}})

\* String.prototype.trim
Trim(s) ==
    LET keep == {j \in 1..Len(s) : s[j] \notin Whitespace}
    IN  IF keep = {} THEN <<>> ELSE SubSeq(s, FirstIdx(keep), LastIdx(keep))

\* the .replace() and .trim() calls of the markup branch, in chain order
MarkupPass(s, k) ==
    CASE k = 1 -> StripBlocks(s, 1, ScriptNames)
      [] k = 2 -> StripBlocks(s, 1, StyleNames)
      [] k = 3 -> Headings(s, 1)
      [] k = 4 -> CloseParas(s, 1)
      [] k = 5 -> OpenParas(s, 1)
      [] k = 6 -> Breaks(s, 1)
      [] k = 7 -> StripTags(s, 1)
      [] k = 8 -> Entity(s, 1, "nbsp", " ")
      [] k = 9 -> Entity(s, 1, "amp", "&")
      [] k = 10 -> Entity(s, 1, "lt", "<")
      [] k = 11 -> Entity(s, 1, "gt", ">")
      [] k = 12 -> Entity(s, 1, "quot", "\"")
      [] k = 13 -> Entity(s, 1, "apos", "'")
      [] k = 14 -> CollapseBlanks(s, 1)
      [] k = 15 -> BlanksAfterNewline(s, 1)
      [] k = 16 -> BlanksBeforeNewline(s, 1)
      [] k = 17 -> CollapseNewlines(s, 1)
      [] OTHER -> Trim(s)

MarkupPasses == 18

RECURSIVE MarkupChain(_, _)
\* the chain from its k-th call on
MarkupChain(s, k) ==
    IF k > MarkupPasses THEN s
    ELSE The({MarkupChain(t, k + 1) : t \in {MarkupPass(s, k)}})

NormalizeMarkup(text) == MarkupChain(text, 1)

----------------------------------------------------------------------------
(* processBookContent, plain-text branch                                   *)

\* /\r\n/g -> '\n'
CrLfEnd(s, j) ==
    IF j + 1 <= Len(s) /\ s[j] = "\r" /\ s[j+1] = "\n" THEN j + 1 ELSE 0

RECURSIVE CrLf(_, _)
CrLf(s, i) ==
    The({IF m = 0 THEN SubSeq(s, i, Len(s))
         ELSE SubSeq(s, i, m - 1) \o <<"\n">>
              \o CrLf(s, CrLfEnd(s, m) + 1)
         : m \in {FirstIdx({j \in i..Len(s) : CrLfEnd(s, j) # 0})}})

\* /\r/g -> '\n'
Cr(s) == [j \in 1..Len(s) |-> IF s[j] = "\r" THEN "\n" ELSE s[j]]

\* /(CHAPTER [IVXLC\d]+.*)/gi -> '\n\n=== $1 ===\n\n'
ChapterEnd(s, j) ==
    IF /\ j + 2 <= Len(s)
       /\ s[j] \in ChapterWords /\ s[j+1] = " " /\ s[j+2] \in RomanStart
    THEN LET nl == FirstIdx({k \in (j + 3)..Len(s) : s[k] \in LineBreak})
         IN  IF nl = 0 THEN Len(s) ELSE nl - 1
    ELSE 0

RECURSIVE Chapters(_, _)
Chapters(s, i) ==
    The({IF m = 0 THEN SubSeq(s, i, Len(s))
         ELSE SubSeq(s, i, m - 1) \o Banner(SubSeq(s, m, ChapterEnd(s, m)))
              \o Chapters(s, ChapterEnd(s, m) + 1)
         : m \in {FirstIdx({j \in i..Len(s) : ChapterEnd(s, j) # 0})}})

RECURSIVE CharCount(_, _, _)
CharCount(s, a, e) ==
    IF a > e THEN 0 ELSE CharLen(s[a]) + CharCount(s, a + 1, e)

\* /^\s*([A-Z][A-Z\s]{10,})\s*$/gm -> '\n\n=== $1 ===\n\n'
\* The capture is greedy over upper-case letters and whitespace (newlines
\* included) and must end where a line ends: at the end of the text, or
\* before the last newline of the run.
CapsStart(s, j) == SkipWhile(s, j, Whitespace)

CapsEnd(s, j) ==
    LET a == CapsStart(s, j)
        m == SkipWhile(s, a, UpperWords \cup Whitespace) - 1
        nl == LastIdx({k \in (a + 1)..m : s[k] = "\n"})
        e == IF m = Len(s) THEN m ELSE nl - 1
    IN  IF /\ (j = 1 \/ s[j-1] \in LineBreak)
           /\ a <= Len(s) /\ s[a] \in UpperWords
           /\ e >= a
           /\ CharCount(s, a, e) - 1 >= 10
        THEN e
        ELSE 0

RECURSIVE CapsLines(_, _)
CapsLines(s, i) ==
    The({IF m = 0 THEN SubSeq(s, i, Len(s))
         ELSE SubSeq(s, i, m - 1) \o Banner(SubSeq(s, CapsStart(s, m), CapsEnd(s, m)))
              \o CapsLines(s, CapsEnd(s, m) + 1)
         : m \in {FirstIdx({j \in i..Len(s) : CapsEnd(s, j) # 0})}})

\* the .replace() and .trim() calls of the plain-text branch, in chain order
PlainPass(s, k) ==
    CASE k = 1 -> CrLf(s, 1)
      [] k = 2 -> Cr(s)
      [] k = 3 -> Chapters(s, 1)
      [] k = 4 -> CapsLines(s, 1)
      [] k = 5 -> CollapseBlanks(s, 1)
      [] k = 6 -> CollapseNewlines(s, 1)
      [] OTHER -> Trim(s)

PlainPasses == 7

RECURSIVE PlainChain(_, _)
PlainChain(s, k) ==
    IF k > PlainPasses THEN s
    ELSE The({PlainChain(t, k + 1) : t \in {PlainPass(s, k)}})

NormalizePlain(text) == PlainChain(text, 1)

----------------------------------------------------------------------------
(* Pagination: the loop of processBookContent and getCurrentPageContent    *)

wordsPerPage == 400

RECURSIVE SplitParagraphs(_, _)
\* text.split(/\n\n+/), from index i on
SplitParagraphs(s, i) ==
    The({IF sep = 0 THEN <<SubSeq(s, i, Len(s))>>
         ELSE <<SubSeq(s, i, sep - 1)>>
              \o SplitParagraphs(s, SkipWhile(s, sep, {"\n"}))
         : sep \in {FirstIdx({j \in i..(Len(s) - 1) :
                                 s[j] = "\n" /\ s[j+1] = "\n"})}})

RECURSIVE SumWords(_, _)
SumWords(s, i) ==
    IF i > Len(s) THEN 0
    ELSE IF s[i] \in Whitespace THEN SumWords(s, i + 1)
    ELSE (IF i = 1 \/ s[i-1] \in Whitespace THEN 1 ELSE 0)
         + (WordsIn(s[i]) - 1) + SumWords(s, i + 1)

\* paragraph.trim().split(/\s+/).length: the empty string splits into ['']
ParagraphWords(paragraph) ==
    The({IF t = <<>> THEN 1 ELSE SumWords(t, 1) : t \in {Trim(paragraph)}})

\* One iteration of the for loop over the paragraphs: the values of pages,
\* currentPageContent and wordCount after it.
PageStep(paragraph, paragraphWords, pages, currentPageContent, wordCount) ==
    IF /\ wordCount + paragraphWords > wordsPerPage
       /\ Trim(currentPageContent) # <<>>
    THEN <<Append(pages, Trim(currentPageContent)),
           paragraph \o <<"\n", "\n">>, paragraphWords>>
    ELSE <<pages, currentPageContent \o paragraph \o <<"\n", "\n">>,
           wordCount + paragraphWords>>

RECURSIVE PageLoop(_, _, _, _, _)
PageLoop(paragraphs, k, pages, currentPageContent, wordCount) ==
    IF k > Len(paragraphs)
    THEN IF Trim(currentPageContent) # <<>>
         THEN Append(pages, Trim(currentPageContent))
         ELSE pages
    ELSE The({PageLoop(paragraphs, k + 1, st[1], st[2], st[3]) :
                 st \in {PageStep(paragraphs[k], ParagraphWords(paragraphs[k]),
                                  pages, currentPageContent, wordCount)}})

Paginate(text) ==
    The({PageLoop(paragraphs, 1, <<>>, <<>>, 0) :
            paragraphs \in {SplitParagraphs(text, 1)}})

----------------------------------------------------------------------------
(* Books, format maps, source URLs and relays.  A format key, a URL and a  *)
(* relay prefix are sequences of segments, cut so that the substrings the  *)
(* code tests with includes() are segments of their own.                   *)

\* String.prototype.includes(w)
Includes(s, w) == \E j \in 1..Len(s) : s[j] = w

KeyHtml == <<"text", "/", "html">>

KeyPlainUtf8 == <<"text", "/", "plain", "; charset=utf-8">>

KeyPlain == <<"text", "/", "plain">>

KeyPlainAscii == <<"text", "/", "plain", "; charset=us-ascii">>

KeyXhtml == <<"application/x", "html", "+xml">>

KeyEpub == <<"application/", "epub", "+zip">>

KeyJpeg == <<"image/jpeg">>

UrlHtml == <<"https://www.gutenberg.org/ebooks/2701.", "html", ".images">>

UrlTxt == <<"https://www.gutenberg.org/ebooks/2701.txt.utf-8">>

UrlTxtPlain == <<"https://www.gutenberg.org/files/2701/2701-0.txt">>

UrlTxtAscii == <<"https://www.gutenberg.org/ebooks/2701.txt.us-ascii">>

UrlXhtml == <<"https://www.gutenberg.org/ebooks/2701.x", "html">>

UrlEpub == <<"https://www.gutenberg.org/ebooks/2701.epub3.images">>

UrlJpeg == <<"https://www.gutenberg.org/cache/epub/2701/pg2701.cover.medium.jpg">>

UrlOpenLibrary == <<"https://openlibrary.org/works/OL102749W">>

corsProxies ==
    << <<"https://", "cors-anywhere", ".herokuapp.com/">>,
       <<"https://api.", "codetabs", ".com/v1/proxy?quest=">>,
       <<"https://thingproxy.freeboard.io/fetch/">>,
       <<"https://cors.", "bridged", ".cc/">>,
       <<"https://yacdn.org/proxy/">> >>

\* The books the reader is opened with: a Gutenberg record with an HTML and
\* a text edition, one whose only readable edition sits under a charset
\* key, one with no readable edition, and one with no formats at all.
Catalogue ==
    << [id |-> "gutenberg-2701",
        title |-> <<"Moby", " ", "Dick">>,
        authors |-> << <<"Melville,", " ", "Herman">> >>,
        formats |-> << [key |-> KeyEpub, url |-> UrlEpub],
                       [key |-> KeyPlainUtf8, url |-> UrlTxt],
                       [key |-> KeyHtml, url |-> UrlHtml] >>],
       [id |-> "gutenberg-11",
        title |-> <<"Alice">>,
        authors |-> << <<"Carroll,", " ", "Lewis">>, <<"Tenniel,", " ", "John">> >>,
        formats |-> << [key |-> KeyJpeg, url |-> UrlJpeg],
                       [key |-> KeyPlainAscii, url |-> UrlTxtAscii] >>],
       [id |-> "gutenberg-7",
        title |-> <<"Atlas">>,
        authors |-> << >>,
        formats |-> << [key |-> KeyEpub, url |-> UrlEpub],
                       [key |-> KeyJpeg, url |-> UrlJpeg] >>],
       [id |-> "openlibrary-undefined",
        title |-> <<"Untitled">>,
        authors |-> << <<"Unknown", " ", "Author">> >>,
        formats |-> << >>] >>

\* formats[key]; a missing key and an empty URL are both falsy
FormatUrl(formats, key) ==
    LET S == {j \in 1..Len(formats) : formats[j].key = key}
    IN  IF S = {} THEN <<>> ELSE formats[FirstIdx(S)].url

\* readableFormats without its filter: every key counts as readable
readableFormats_All(formats) == 1..Len(formats)

\* Object.keys(formats).filter(f => f.includes('text') || f.includes('html'))
readableFormats(formats) ==
    {j \in 1..Len(formats) :
        Includes(formats[j].key, "text") \/ Includes(formats[j].key, "html")}

\* SelectContentUrl with the first two tests exchanged: the charset key is
\* looked up before text/html
SelectContentUrl_PlainFirst(formats) ==
    IF FormatUrl(formats, KeyPlainUtf8) # <<>> THEN FormatUrl(formats, KeyPlainUtf8)
    ELSE IF FormatUrl(formats, KeyHtml) # <<>> THEN FormatUrl(formats, KeyHtml)
    ELSE IF FormatUrl(formats, KeyPlain) # <<>> THEN FormatUrl(formats, KeyPlain)
    ELSE IF readableFormats(formats) # {}
         THEN formats[FirstIdx(readableFormats(formats))].url
    ELSE <<>>

\* the if / else-if chain that sets contentUrl ('' when nothing matches)
SelectContentUrl(formats) ==
    IF FormatUrl(formats, KeyHtml) # <<>> THEN FormatUrl(formats, KeyHtml)
    ELSE IF FormatUrl(formats, KeyPlainUtf8) # <<>>
         THEN FormatUrl(formats, KeyPlainUtf8)
    ELSE IF FormatUrl(formats, KeyPlain) # <<>> THEN FormatUrl(formats, KeyPlain)
    ELSE IF readableFormats(formats) # {}
         THEN formats[FirstIdx(readableFormats(formats))].url
    ELSE <<>>

RECURSIVE JoinAuthors(_, _)
\* book.authors.join(', ')
JoinAuthors(authors, k) ==
    IF k > Len(authors) THEN <<>>
    ELSE (IF k > 1 THEN <<",", " ">> ELSE <<>>) \o authors[k]
         \o JoinAuthors(authors, k + 1)

\* The passage after the "By ..." line, one word-run lexeme per line (it is
\* only ever read by the markup branch).
DemoBody ==
    <<"\n", "\n", "w9", " ", "\n", "\n", "w21", "\n", "\n", "w12", "\n",
      "\n", "w18", "\n", "w10", "\n", "w12", "\n", "w12", "\n", "\n", "w7",
      "\n", "w7", "\n", "w7", "\n", "w6", "\n", "w3", "\n", "w4", "\n",
      "\n", "w11", "\n", "\n", "w8", "\n", "w7", "\n", "w6", "\n", "w8",
      "\n", "\n", "w18", "\n", "\n", "w13", "\n", "\n", "w9", "\n", "\n",
      "w13", "\n", "\n", "w15", "\n", "\n", "w10", "\n", "\n", "w10", "\n",
      "\n", "w23", "\n", "\n", "w12", "\n", "\n", "w14">>

\* generateDemoContent without the authors on its "By" line
generateDemoContent_NoAuthors(b) ==
    <<"===", " ">> \o b.title \o <<" ", "===", "\n", "\n", "By", " ">> \o DemoBody

generateDemoContent(b) ==
    <<"===", " ">> \o b.title \o <<" ", "===", "\n", "\n", "By", " ">>
    \o JoinAuthors(b.authors, 1) \o DemoBody

DemoUrl == <<"demo">>

\* What processBookContent stores: the normalised text and the page count.
\* Its catch branch is not modelled: text is always a string, and none of
\* the replace/split/trim calls throws on a string.
processBookContent(text, contentUrl) ==
    CHOOSE r \in {[content |-> processed, totalPages |-> Len(Paginate(processed))] :
                     processed \in {IF Includes(contentUrl, "html") \/ contentUrl = DemoUrl
                                    THEN NormalizeMarkup(text)
                                    ELSE NormalizePlain(text)}} : TRUE

----------------------------------------------------------------------------
(* Responses.  A response body is a payload, sent raw or wrapped in a JSON *)
(* envelope {"contents": payload}.                                         *)

PayloadEmpty == <<>>

PayloadLong == <<"w150", "\n", "\n", "w300", "\n", "\n", "w250">>

Payloads == {PayloadEmpty, PayloadLong}

\* JSON.stringify of one lexeme of a string value
JsonEscape(t) ==
    CASE t = "\n" -> "\\n"
      [] t = "\r" -> "\\r"
      [] t = "\t" -> "\\t"
      [] t = "\"" -> "\\\""
      [] OTHER -> t

Envelope(payload) ==
    <<"{\"contents\":\"">> \o [j \in 1..Len(payload) |-> JsonEscape(payload[j])]
    \o <<"\"}">>

\* response.text()
ResponseText(body) ==
    IF body.wrap = "json" THEN Envelope(body.payload) ELSE body.payload

\* (await response.json()).contents of an envelope.  (json() of a body that
\* is not JSON rejects; no entry of corsProxies takes this branch.)
ResponseJsonContents(body) == body.payload

\* the payload extraction of the relay loop
ProxyText(proxy, body) ==
    IF Includes(proxy, "codetabs") \/ Includes(proxy, "bridged")
    THEN ResponseText(body)
    ELSE IF Includes(proxy, "allorigins")
         THEN ResponseJsonContents(body)
         ELSE ResponseText(body)

\* How a fetch settles: response.ok and the body read; a non-success
\* status; fetch rejected; the body read rejected.
Outcomes == {"ok", "http_error", "network_error", "body_error"}

NoBody == [wrap |-> "none", payload |-> <<>>]

\* the endpoint of the direct fetch(contentUrl)
Direct == <<"direct">>

DirectBodies == [wrap : {"raw"}, payload : Payloads]

ProxyBodies == [wrap : {"raw", "json"}, payload : Payloads]

----------------------------------------------------------------------------
(* The reading session: the state of one BookReader component              *)

VARIABLES
    mounted,        \* Index.currentReader is set: a BookReader is rendered
    book,           \* the book prop (NoBook while no reader is rendered)
    content, loading, error, currentPage, totalPages, isBookmarked,
    settings, showSettings,     \* the component's useState cells
    load,           \* loadBookContent: where the async function is suspended
    attempts,       \* the fetch calls of this open, in the order issued
    handed,         \* the arguments of the last processBookContent call
    lastOp,         \* the handler that ran last
    localStorage,   \* the browser's storage of the page's origin
    search,         \* the BookService.searchBooks call and what it awaits
    earlier,        \* a searchBooks call issued before it and still awaited
    index           \* the useState cells of Index, and the toast shown last

vars == <<mounted, book, content, loading, error, currentPage, totalPages,
          isBookmarked, settings, showSettings, load, attempts, handed, lastOp,
          localStorage, search, earlier, index>>

\* the state of the reader and of the storage
readerVars == <<mounted, book, content, loading, error, currentPage,
                totalPages, isBookmarked, settings, showSettings, load,
                attempts, handed, lastOp, localStorage>>

sessionVars == <<content, loading, error, currentPage, totalPages,
                 isBookmarked, settings>>

null == "null"

\* NaN is encoded as an integer no page index or slider value can take;
\* JsLess and JsPlus give it the semantics of the JavaScript operators.
NaN == 0 - 1000000

JsLess(a, b) == a # NaN /\ b # NaN /\ a < b

JsPlus(a, b) == IF a = NaN \/ b = NaN THEN NaN ELSE a + b

DigitValue ==
    [c \in {"0", "1", "2", "3", "4", "5", "6", "7", "8", "9"} |->
        CASE c = "0" -> 0 [] c = "1" -> 1 [] c = "2" -> 2 [] c = "3" -> 3
          [] c = "4" -> 4 [] c = "5" -> 5 [] c = "6" -> 6 [] c = "7" -> 7
          [] c = "8" -> 8 [] OTHER -> 9]

RECURSIVE LeadingDigits(_, _, _)
LeadingDigits(v, k, acc) ==
    IF k <= Len(v) /\ v[k] \in DOMAIN DigitValue
    THEN LeadingDigits(v, k + 1, 10 * acc + DigitValue[v[k]])
    ELSE acc

\* parseInt(v) of a string given as its characters: an optional sign, then
\* the leading digits; NaN when there is no digit
ParseInt(v) ==
    LET neg == Len(v) >= 1 /\ v[1] = "-"
        k == IF neg THEN 2 ELSE 1
    IN  IF ~(k <= Len(v) /\ v[k] \in DOMAIN DigitValue) THEN NaN
        ELSE IF neg THEN 0 - LeadingDigits(v, k, 0)
        ELSE LeadingDigits(v, k, 0)

DefaultSettings ==
    [fontSize |-> 18, theme |-> "light", fontFamily |-> "serif", lineHeight |-> 16]

NoBook == [id |-> "", title |-> <<>>, authors |-> <<>>, formats |-> <<>>]

Idle == [pc |-> "idle", contentUrl |-> <<>>, proxy |-> 0]

NotHanded == [called |-> FALSE, text |-> <<>>, contentUrl |-> <<>>]

\* BookService keeps one record per book under 'reading-progress-' + bookId
StorageKey(bookId) == <<"reading-progress-", bookId>>

\* localStorage.getItem(key): the stored value, or null (the empty sequence)
\* when the key is absent
getItem(storage, key) == IF key \in DOMAIN storage THEN storage[key] ELSE <<>>

\* localStorage.setItem(key, value)
setItem(storage, key, value) ==
    [k \in DOMAIN storage \cup {key} |-> IF k = key THEN value ELSE storage[k]]

\* JSON.stringify writes a number that is NaN as null, and JSON.parse reads
\* that back as null
JsonNumber(n) == IF n = NaN THEN <<>> ELSE <<n>>

\* BookService.getReadingProgress(bookId): the parsed record, or null
getReadingProgress(storage, bookId) == getItem(storage, StorageKey(bookId))

\* BookService.saveReadingProgress(bookId, page, isBookmarked)
BookService_saveReadingProgress(storage, bookId, page, bookmarked) ==
    setItem(storage, StorageKey(bookId),
            <<[page |-> JsonNumber(page), isBookmarked |-> bookmarked]>>)

\* The reader's own saveReadingProgress writes a line to the console and
\* nothing else; it is the effect of [currentPage].
saveReadingProgress(storage, bookId, page, bookmarked) == storage

\* the effect of [currentPage] runs when the rendered page index changed
SaveEffect(page) ==
    localStorage' = IF page # currentPage
                    THEN saveReadingProgress(localStorage, book.id, page,
                                             isBookmarked)
                    ELSE localStorage

\* The storage outlives the page: a visit starts with whatever records an
\* earlier visit left, here none or one for the first book of the catalogue.
StoredPage == 1

InitialStorage ==
    { <<>>,
      BookService_saveReadingProgress(<<>>, Catalogue[1].id, StoredPage, TRUE) }

\* no search has been issued
NoResult == [books |-> <<>>, totalCount |-> 0, hasMore |-> FALSE]

SearchIdle ==
    [pc |-> "idle", calls |-> <<>>, returned |-> FALSE, gutenbergBooks |-> NoResult,
     openLibraryBooks |-> NoResult, result |-> NoResult, caught |-> null,
     error |-> null]

NoToast == [title |-> "", description |-> <<>>, variant |-> "default"]

\* Index as first rendered: no books, no search performed, no toast
IndexInitial ==
    [books |-> <<>>, loading |-> FALSE, searchPerformed |-> FALSE,
     hasMore |-> FALSE, currentPage |-> 1, toast |-> NoToast]

Init ==
    /\ search = SearchIdle
    /\ earlier = SearchIdle
    /\ index = IndexInitial
    /\ localStorage \in InitialStorage
    /\ mounted = FALSE
    /\ book = NoBook
    /\ content = <<>>
    /\ loading = TRUE
    /\ error = null
    /\ currentPage = 0
    /\ totalPages = 0
    /\ isBookmarked = FALSE
    /\ settings = DefaultSettings
    /\ showSettings = FALSE
    /\ load = Idle
    /\ attempts = <<>>
    /\ handed = NotHanded
    /\ lastOp = "none"

\* The reader renders its page (and so its controls) only when it is
\* neither loading nor in error.
Ready == mounted /\ ~loading /\ error = null

Loading == mounted /\ loading

Failed == mounted /\ ~loading /\ error # null

\* processBookContent(text, contentUrl) as called from loadBookContent:
\* setContent, setTotalPages, setLoading(false)
Process(text, contentUrl) ==
    \E r \in {processBookContent(text, contentUrl)} :
        /\ content' = r.content
        /\ totalPages' = r.totalPages
        /\ loading' = FALSE
        /\ handed' = [called |-> TRUE, text |-> text, contentUrl |-> contentUrl]

\* the catch block of loadBookContent: demo content instead of an error
Fallback(b) == Process(generateDemoContent(b), DemoUrl)

\* NextProxy stepping over one relay of the list
NextProxy_Skip(k) == IF k + 1 < Len(corsProxies) THEN k + 2 ELSE 0

\* the relay to try once attempt number k has failed (0 is the direct
\* fetch); 0 when the list is exhausted
NextProxy(k) == IF k < Len(corsProxies) THEN k + 1 ELSE 0

\* response.ok held and the body was read
Succeeded(outcome) == outcome = "ok"

\* the attempt in flight settles; body is the response body that was read
Settled(result, body) ==
    [attempts EXCEPT ![Len(attempts)].result = result,
                     ![Len(attempts)].body = body]

\* a fetch call that has just been issued
Pending(endpoint) == [endpoint |-> endpoint, result |-> "pending", body |-> NoBody]

\* Continue without the catch block: the throw after the last relay ends
\* loadBookContent and nothing is processed
Continue_NoCatch(k) ==
    IF NextProxy(k) # 0
    THEN /\ load' = [load EXCEPT !.pc = "proxy", !.proxy = NextProxy(k)]
         /\ attempts' = Append(Settled("failed", NoBody),
                               Pending(corsProxies[NextProxy(k)]))
         /\ UNCHANGED <<content, totalPages, loading, handed>>
    ELSE /\ load' = [load EXCEPT !.pc = "done"]
         /\ attempts' = Settled("failed", NoBody)
         /\ UNCHANGED <<content, totalPages, loading, handed>>

\* the code after a failed attempt: the next relay's fetch, or the throw
\* that ends in the catch block
Continue(k) ==
    IF NextProxy(k) # 0
    THEN /\ load' = [load EXCEPT !.pc = "proxy", !.proxy = NextProxy(k)]
         /\ attempts' = Append(Settled("failed", NoBody),
                               Pending(corsProxies[NextProxy(k)]))
         /\ UNCHANGED <<content, totalPages, loading, handed>>
    ELSE /\ load' = [load EXCEPT !.pc = "done"]
         /\ attempts' = Settled("failed", NoBody)
         /\ Fallback(book)

\* useEffect([book]) on mount: loadBookContent up to its first await, then
\* loadReadingProgress
Open(b) ==
    /\ ~mounted
    /\ mounted' = TRUE
    /\ book' = b
    /\ error' = null
    /\ LET contentUrl == SelectContentUrl(b.formats)
       IN  IF contentUrl = <<>>
           THEN /\ load' = [pc |-> "done", contentUrl |-> <<>>, proxy |-> 0]
                /\ attempts' = <<>>
                /\ Fallback(b)
           ELSE /\ load' = [pc |-> "direct", contentUrl |-> contentUrl, proxy |-> 0]
                /\ attempts' = <<Pending(Direct)>>
                /\ loading' = TRUE
                /\ UNCHANGED <<content, totalPages, handed>>
    /\ currentPage' = 0
    /\ isBookmarked' = FALSE
    /\ UNCHANGED <<settings, showSettings>>
    /\ lastOp' = "open"
    /\ localStorage' = saveReadingProgress(localStorage, b.id, 0, FALSE)
    /\ UNCHANGED <<search, earlier, index>>

\* the direct fetch(contentUrl) settles
ResolveDirect(outcome, body) ==
    /\ load.pc = "direct"
    /\ IF Succeeded(outcome)
       THEN /\ Process(ResponseText(body), load.contentUrl)
            /\ load' = [load EXCEPT !.pc = "done"]
            /\ attempts' = Settled("ok", body)
       ELSE Continue(0)
    /\ lastOp' = "resolve"
    /\ UNCHANGED <<localStorage, search, earlier, index>>
    /\ UNCHANGED <<mounted, book, error, currentPage, isBookmarked, settings,
                   showSettings>>

\* the fetch through corsProxies[load.proxy] settles
ResolveProxy(outcome, body) ==
    /\ load.pc = "proxy"
    /\ IF Succeeded(outcome)
       THEN /\ Process(ProxyText(corsProxies[load.proxy], body), load.contentUrl)
            /\ load' = [load EXCEPT !.pc = "done"]
            /\ attempts' = Settled("ok", body)
       ELSE Continue(load.proxy)
    /\ lastOp' = "resolve"
    /\ UNCHANGED <<localStorage, search, earlier, index>>
    /\ UNCHANGED <<mounted, book, error, currentPage, isBookmarked, settings,
                   showSettings>>

----------------------------------------------------------------------------
(* The handlers of the reader page                                         *)

\* getCurrentPageContent reading its page list from index 1
getCurrentPageContent_OneBased(text, page) ==
    IF text = <<>> THEN <<>>
    ELSE The({IF page \in 1..Len(pages) THEN pages[page] ELSE <<>> :
                 pages \in {Paginate(text)}})

\* getCurrentPageContent(): the text the page shows, pages[currentPage] || ''
getCurrentPageContent(text, page) ==
    IF text = <<>> THEN <<>>
    ELSE The({IF page \in 0..(Len(pages) - 1) THEN pages[page + 1] ELSE <<>> :
                 pages \in {Paginate(text)}})

handleNextPage(page, total) ==
    IF JsLess(page, total - 1) THEN JsPlus(page, 1) ELSE page

handlePrevPage(page) ==
    IF JsLess(0, page) THEN JsPlus(page, 0 - 1) ELSE page

\* the page slider's onChange: setCurrentPage(parseInt(e.target.value))
sliderPage(value, total) == ParseInt(value)

Navigate(op, page) ==
    /\ Ready
    /\ currentPage' = page
    /\ lastOp' = op
    /\ SaveEffect(page)
    /\ UNCHANGED <<search, earlier, index>>
    /\ UNCHANGED <<mounted, book, content, loading, error, totalPages,
                   isBookmarked, settings, showSettings, load, attempts, handed>>

NextPage == Navigate("nextPage", handleNextPage(currentPage, totalPages))

PrevPage == Navigate("prevPage", handlePrevPage(currentPage))

Seek(value) == Navigate("seek", sliderPage(value, totalPages))

ToggleBookmark ==
    /\ Ready
    /\ isBookmarked' = ~isBookmarked
    /\ lastOp' = "toggleBookmark"
    /\ UNCHANGED <<localStorage, search, earlier, index>>
    /\ UNCHANGED <<mounted, book, content, loading, error, currentPage,
                   totalPages, settings, showSettings, load, attempts, handed>>

ResetProgress ==
    /\ Ready
    /\ currentPage' = 0
    /\ isBookmarked' = FALSE
    /\ lastOp' = "resetProgress"
    /\ SaveEffect(0)
    /\ UNCHANGED <<search, earlier, index>>
    /\ UNCHANGED <<mounted, book, content, loading, error, totalPages,
                   settings, showSettings, load, attempts, handed>>

ToggleSettings ==
    /\ Ready
    /\ showSettings' = ~showSettings
    /\ lastOp' = "toggleSettings"
    /\ UNCHANGED <<localStorage, search, earlier, index>>
    /\ UNCHANGED <<mounted, book, content, loading, error, currentPage,
                   totalPages, isBookmarked, settings, load, attempts, handed>>

\* The settings handler as it would be were the settings among the
\* dependencies of the loading effect: the progress is loaded again.
UpdateSettings_Reload(field, value) ==
    /\ Ready
    /\ showSettings
    /\ settings' = [settings EXCEPT ![field] = value]
    /\ currentPage' = 0
    /\ isBookmarked' = FALSE
    /\ lastOp' = "updateSettings"
    /\ UNCHANGED <<mounted, book, content, loading, error, totalPages,
                   showSettings, load, attempts, handed, localStorage,
                   search, earlier, index>>

\* setSettings(prev => ({ ...prev, [field]: value })) of the settings panel
UpdateSettings(field, value) ==
    /\ Ready
    /\ showSettings
    /\ settings' = [settings EXCEPT ![field] = value]
    /\ lastOp' = "updateSettings"
    /\ UNCHANGED <<localStorage, search, earlier, index>>
    /\ UNCHANGED <<mounted, book, content, loading, error, currentPage,
                   totalPages, isBookmarked, showSettings, load, attempts, handed>>

\* onClose: Index sets currentReader to null and the component unmounts;
\* its state is dropped.  The loading screen has no close control.
Close ==
    /\ mounted
    /\ ~loading
    /\ mounted' = FALSE
    /\ book' = NoBook
    /\ content' = <<>>
    /\ loading' = TRUE
    /\ error' = null
    /\ currentPage' = 0
    /\ totalPages' = 0
    /\ isBookmarked' = FALSE
    /\ settings' = DefaultSettings
    /\ showSettings' = FALSE
    /\ load' = Idle
    /\ attempts' = <<>>
    /\ handed' = NotHanded
    /\ lastOp' = "close"
    /\ UNCHANGED <<localStorage, search, earlier, index>>

----------------------------------------------------------------------------
(* Inputs                                                                  *)

MaxSlider == 4

DigitChars == <<"0", "1", "2", "3", "4", "5", "6", "7", "8", "9">>

\* what the slider's onChange may be handed: the in-range values, values
\* outside the range, and text that is not a number
SliderValues ==
    {<<DigitChars[n + 1]>> : n \in 0..MaxSlider}
    \cup {<<"-", "1">>, <<"x">>, <<"1", "x">>, <<>>}

FontSizes == {18, 24}

LineHeights == {12, 16}

Themes == {"light", "sepia"}

FontFamilies == {"serif", "mono"}

SettingInputs ==
    ({"fontSize"} \X FontSizes) \cup ({"lineHeight"} \X LineHeights)
    \cup ({"theme"} \X Themes) \cup ({"fontFamily"} \X FontFamilies)

Next ==
    \/ \E k \in 1..Len(Catalogue) : Open(Catalogue[k])
    \/ \E o \in Outcomes, body \in DirectBodies : ResolveDirect(o, body)
    \/ \E o \in Outcomes, body \in ProxyBodies : ResolveProxy(o, body)
    \/ NextPage
    \/ PrevPage
    \/ \E v \in SliderValues : Seek(v)
    \/ ToggleBookmark
    \/ ResetProgress
    \/ ToggleSettings
    \/ \E in \in SettingInputs : UpdateSettings(in[1], in[2])
    \/ Close

Spec == Init /\ [][Next]_vars

----------------------------------------------------------------------------
(* The reader opened with every formats map of up to MaxFormats keys       *)

MaxFormats == 3

\* the format keys a record may carry, each with its URL
AllFormats ==
    << [key |-> KeyHtml, url |-> UrlHtml],
       [key |-> KeyPlainUtf8, url |-> UrlTxt],
       [key |-> KeyPlain, url |-> UrlTxtPlain],
       [key |-> KeyPlainAscii, url |-> UrlTxtAscii],
       [key |-> KeyXhtml, url |-> UrlXhtml],
       [key |-> KeyEpub, url |-> UrlEpub],
       [key |-> KeyJpeg, url |-> UrlJpeg] >>

\* the maps with n keys, in every key order (an object has no key twice)
FormatMapsOf(n) ==
    {[j \in 1..n |-> AllFormats[q[j]]] :
        q \in {f \in [1..n -> 1..Len(AllFormats)] :
                  \A a, b \in 1..n : a # b => f[a] # f[b]}}

FormatMaps == UNION {FormatMapsOf(n) : n \in 0..MaxFormats}

BookWith(formats) == [Catalogue[1] EXCEPT !.formats = formats]

SelectNext ==
    \/ \E f \in FormatMaps : Open(BookWith(f))
    \/ \E o \in Outcomes, body \in DirectBodies : ResolveDirect(o, body)
    \/ \E o \in Outcomes, body \in ProxyBodies : ResolveProxy(o, body)
    \/ Close

SelectSpec == Init /\ [][SelectNext]_vars

----------------------------------------------------------------------------
(* The reader used for paging, bookmarking and its settings panel          *)

SettingsNext ==
    \/ \E k \in 1..Len(Catalogue) : Open(Catalogue[k])
    \/ \E o \in Outcomes, body \in DirectBodies : ResolveDirect(o, body)
    \/ \E o \in Outcomes, body \in ProxyBodies : ResolveProxy(o, body)
    \/ NextPage
    \/ PrevPage
    \/ ToggleBookmark
    \/ ToggleSettings
    \/ \E in \in SettingInputs : UpdateSettings(in[1], in[2])
    \/ Close

SettingsSpec == Init /\ [][SettingsNext]_vars

----------------------------------------------------------------------------
(* The reader opened on texts of every shape: what the direct fetch        *)
(* delivers is normalised and paginated by processBookContent.             *)

MaxParts == 3

\* the pieces a delivered text is put together from
TextParts ==
    << <<"w150">>, <<"w300">>, <<"w450">>, <<"\n", "\n">>, <<" ">>,
       <<"CHAPTER", " ", "I">>, <<"<", "p", ">">>, <<"<", "/", "p", ">">>,
       <<"&", "amp", ";">>, <<"amp", ";">> >>

RECURSIVE Flatten(_)
Flatten(parts) ==
    IF parts = <<>> THEN <<>> ELSE Head(parts) \o Flatten(Tail(parts))

\* the texts of up to MaxParts pieces
PartTexts ==
    UNION {{Flatten([j \in 1..n |-> TextParts[f[j]]]) :
               f \in [1..n -> 1..Len(TextParts)]} : n \in 0..MaxParts}

ExampleMarkup ==
    <<"<", "h1", ">", "Intro", "<", "/", "h1", ">",
      "<", "p", ">", "Hello", " ", "world.", "<", "/", "p", ">",
      "<", "p", ">", "Bye.", "<", "/", "p", ">">>

\* two long paragraphs with a line of one blank between them
BlankLineText ==
    <<"w300", "\n", "\n", " ", "\n", "\n", "w300">>

\* the escaped text of a tag
EscapedTagText ==
    <<"&", "lt", ";", "b", "&", "gt", ";", "bold", "&", "lt", ";", "/", "b",
      "&", "gt", ";">>

\* five paragraphs, the fourth over the budget
FiveParagraphs ==
    <<"w150", "\n", "\n", "w150", "\n", "\n", "w150", "\n", "\n", "w450",
      "\n", "\n", "w150">>

\* two paragraphs of 400 words together, a line of one blank between them
FittingText ==
    <<"w250", "\n", "\n", " ", "\n", "\n", "w150">>

\* the markup of the text '&lt;'
EscapedEntityText == <<"&", "amp", ";", "lt", ";">>

\* the markup of the texts '&lt;', '&gt;', '&quot;' and '&apos;'
EscapedEntities ==
    {<<"&", "amp", ";", name, ";">> : name \in {"lt", "gt", "quot", "apos"}}

SampleTexts ==
    {ExampleMarkup, BlankLineText, EscapedTagText, FiveParagraphs, FittingText,
     EscapedEntityText} \cup EscapedEntities

TextBodies == [wrap : {"raw"}, payload : PartTexts \cup SampleTexts]

TextInit == Init /\ localStorage = <<>>

\* the first book of the catalogue is read from its text/html URL, the
\* second from its text/plain URL
TextNext ==
    \/ \E k \in 1..2 : Open(Catalogue[k])
    \/ \E body \in TextBodies : ResolveDirect("ok", body)
    \/ Close

TextSpec == TextInit /\ [][TextNext]_vars

----------------------------------------------------------------------------
(* BookService.searchBooks and the two catalogue services                  *)

\* searchBooks asks Open Library when Gutenberg gave fewer books than this
enoughResults == 10

\* searchOpenLibrary maps data.docs.slice(0, 10)
docsLimit == 10

\* searchBooks returns uniqueBooks.slice(0, 20)
resultLimit == 20

\* the most records a catalogue service answers with
MaxResults == 21

Numerals ==
    <<"1", "2", "3", "4", "5", "6", "7", "8", "9", "10", "11", "12", "13",
      "14", "15", "16", "17", "18", "19", "20", "21", "22", "23", "24">>

\* String.prototype.toLowerCase
ToLowerCase(t) ==
    [k \in 1..Len(t) |->
        CASE t[k] \in {"Vol", "VOL"} -> "vol"
          [] t[k] \in {"Melville", "MELVILLE"} -> "melville"
          [] t[k] = "Tome" -> "tome"
          [] t[k] = "Unknown" -> "unknown"
          [] t[k] = "Author" -> "author"
          [] OTHER -> t[k]]

\* the i-th record of the Gutenberg catalogue; the third has no author,
\* the eleventh is another edition of the first
GutenbergItem(i) ==
    [id |-> Numerals[i],
     title |-> IF i = 11 THEN <<"VOL", " ", Numerals[1]>>
               ELSE <<"Vol", " ", Numerals[i]>>,
     authors |-> IF i = 3 THEN <<>> ELSE << <<"Melville">> >>,
     formats |-> << [key |-> KeyHtml, url |-> UrlHtml] >>]

\* the j-th document of Open Library: the first two are works Gutenberg
\* has too, the second comes without author_name
OpenLibraryDoc(j) ==
    [key |-> <<"/works/", "OL", Numerals[j], "W">>,
     title |-> IF j <= 2 THEN <<"VOL", " ", Numerals[j]>>
               ELSE <<"Tome", " ", Numerals[j]>>,
     author_name |-> IF j = 2 THEN <<>> ELSE << <<"MELVILLE">> >>]

\* what the services answer: the records and the counts of the body
GutenbergResponses ==
    {[results |-> [i \in 1..n |-> GutenbergItem(i)], count |-> n, next |-> nx] :
        n \in 0..MaxResults, nx \in BOOLEAN}

OpenLibraryResponses ==
    {[docs |-> [j \in 1..m |-> OpenLibraryDoc(j)], numFound |-> m] :
        m \in 0..MaxResults}

\* the Book searchGutenberg makes of an item.  Of a Book only the fields
\* the search and the reader read are kept.
gutenbergBook(item) ==
    [id |-> <<"gutenberg-", item.id>>, title |-> item.title,
     authors |-> item.authors, formats |-> item.formats]

\* what searchGutenberg returns for a response that is ok; next is TRUE
\* when data.next is not null
searchGutenberg(response) ==
    [books |-> [k \in 1..Len(response.results) |-> gutenbergBook(response.results[k])],
     totalCount |-> response.count,
     hasMore |-> response.next]

createOpenLibraryFormats(item) ==
    IF item.key # <<>>
    THEN << [key |-> KeyHtml, url |-> <<"https://openlibrary.org">> \o item.key] >>
    ELSE <<>>

\* the Book searchOpenLibrary makes of a document; author_name is <<>>
\* when the document has none
openLibraryBook(item) ==
    [id |-> <<"openlibrary-">> \o Tail(item.key), title |-> item.title,
     authors |-> IF item.author_name = <<>>
                 THEN << <<"Unknown", " ", "Author">> >>
                 ELSE item.author_name,
     formats |-> createOpenLibraryFormats(item)]

searchOpenLibrary(response) ==
    [books |-> [k \in 1..(IF Len(response.docs) < docsLimit
                          THEN Len(response.docs) ELSE docsLimit) |->
                   openLibraryBook(response.docs[k])],
     totalCount |-> response.numFound,
     hasMore |-> Len(response.docs) >= 10]

\* `${book.title.toLowerCase()}-${book.authors[0]?.toLowerCase()}`
BookKey(b) ==
    <<ToLowerCase(b.title),
      IF b.authors = <<>> THEN <<"undefined">> ELSE ToLowerCase(b.authors[1])>>

RECURSIVE deduplicateFrom(_, _, _)
deduplicateFrom(books, k, seen) ==
    IF k > Len(books) THEN <<>>
    ELSE IF BookKey(books[k]) \in seen
         THEN deduplicateFrom(books, k + 1, seen)
         ELSE <<books[k]>>
              \o deduplicateFrom(books, k + 1, seen \cup {BookKey(books[k])})

deduplicateBooks(books) == deduplicateFrom(books, 1, {})

\* the test of searchBooks with <= for <
needsSupplement_Inclusive(books) == Len(books) <= enoughResults

\* if (gutenbergBooks.books.length < 10)
needsSupplement(books) == Len(books) < enoughResults

\* the message of the error a catalogue service throws: its own for a
\* response that is not ok, the runtime's when fetch or json() rejects
providerError(service, outcome) ==
    CASE outcome = "http_error" ->
            IF service = "gutenberg" THEN "Gutenberg API request failed"
            ELSE "Open Library API request failed"
      [] outcome = "network_error" -> "Failed to fetch"
      [] OTHER -> "Unexpected end of JSON input"

\* what searchBooks returns when it has asked both services
combined(call, gutenbergBooks, openLibraryBooks) ==
    The({[call EXCEPT
            !.pc = "done",
            !.openLibraryBooks = openLibraryBooks,
            !.result =
                [books |-> SubSeq(uniqueBooks, 1,
                                  IF Len(uniqueBooks) < resultLimit
                                  THEN Len(uniqueBooks) ELSE resultLimit),
                 totalCount |-> gutenbergBooks.totalCount + openLibraryBooks.totalCount,
                 hasMore |-> Len(uniqueBooks) >= resultLimit]] :
         uniqueBooks \in {deduplicateBooks(gutenbergBooks.books \o openLibraryBooks.books)}})

\* the catch block of searchBooks: the error caught is logged, another
\* one is thrown
searchFailed(call, caught) ==
    [call EXCEPT !.pc = "failed",
                 !.caught = caught,
                 !.error = "Failed to search books. Please try again."]

\* searchBooks(query, filters, page) up to its await of searchGutenberg
searchBooksCalled == [SearchIdle EXCEPT !.pc = "gutenberg", !.calls = <<"gutenberg">>]

\* searchBooks from the settling of the request to Gutenberg to its next
\* await or its end
gutenbergSettled(call, outcome, response) ==
    IF Succeeded(outcome)
    THEN The({IF needsSupplement(g.books)
              THEN [call EXCEPT !.pc = "openlibrary",
                                !.calls = Append(@, "openlibrary"),
                                !.returned = TRUE,
                                !.gutenbergBooks = g]
              ELSE [call EXCEPT !.pc = "done",
                                !.returned = TRUE,
                                !.gutenbergBooks = g,
                                !.result = g] :
              g \in {searchGutenberg(response)}})
    ELSE searchFailed(call, providerError("gutenberg", outcome))

\* searchBooks from the settling of the request to Open Library to its end
openLibrarySettled(call, outcome, response) ==
    IF Succeeded(outcome)
    THEN combined(call, call.gutenbergBooks, searchOpenLibrary(response))
    ELSE searchFailed(call, providerError("openlibrary", outcome))

\* BookService.searchBooks is called
SearchBooks ==
    /\ search.pc \in {"idle", "done", "failed"}
    /\ search' = searchBooksCalled
    /\ UNCHANGED <<readerVars, earlier, index>>

\* the request to Gutenberg settles
GutenbergSettles(outcome, response) ==
    /\ search.pc = "gutenberg"
    /\ search' = gutenbergSettled(search, outcome, response)
    /\ UNCHANGED <<readerVars, earlier, index>>

\* the request to Open Library settles
OpenLibrarySettles(outcome, response) ==
    /\ search.pc = "openlibrary"
    /\ search' = openLibrarySettled(search, outcome, response)
    /\ UNCHANGED <<readerVars, earlier, index>>

SearchNext ==
    \/ SearchBooks
    \/ \E o \in Outcomes, r \in GutenbergResponses : GutenbergSettles(o, r)
    \/ \E o \in Outcomes, r \in OpenLibraryResponses : OpenLibrarySettles(o, r)

SearchSpec == Init /\ [][SearchNext]_vars

----------------------------------------------------------------------------
(* The reader opened on records of both catalogues                         *)

\* a Gutenberg record read from its text/html URL, one read from its
\* text/plain URL, and the record searchOpenLibrary makes of a document
SourceBooks == {Catalogue[1], Catalogue[2], openLibraryBook(OpenLibraryDoc(1))}

SourceBodies == [wrap : {"raw", "json"}, payload : {ExampleMarkup, EscapedTagText, PayloadLong}]

SourceNext ==
    \/ \E b \in SourceBooks : Open(b)
    \/ \E o \in {"ok", "http_error"}, body \in SourceBodies : ResolveDirect(o, body)
    \/ \E o \in {"ok", "http_error"}, body \in SourceBodies : ResolveProxy(o, body)
    \/ Close

SourceSpec == TextInit /\ [][SourceNext]_vars

----------------------------------------------------------------------------
(* Index: the search page, its searches and its book cards                 *)

\* `${n}` of a count of books
CountText(n) == IF n = 0 THEN "0" ELSE Numerals[n]

\* String.prototype.toUpperCase, on the last part of a format key
ToUpperCase(t) ==
    CASE t = "html" -> "HTML" [] t = "plain" -> "PLAIN" [] t = "+zip" -> "+ZIP"
      [] OTHER -> t

\* a searchBooks call that has not settled
InFlight(call) == call.pc \in {"gutenberg", "openlibrary"}

\* handleSearch after its await: the try block when searchBooks has
\* returned, the catch block when it has thrown, then the finally block;
\* nothing while searchBooks still awaits a service
handleSearchResumed(idx, call) ==
    CASE call.pc = "done" ->
            [idx EXCEPT
                !.books = call.result.books,
                !.hasMore = call.result.hasMore,
                !.searchPerformed = TRUE,
                !.toast = [title |-> "Search completed",
                           description |-> <<"Found ", CountText(Len(call.result.books)),
                                             " books">>,
                           variant |-> "default"],
                !.loading = FALSE]
      [] call.pc = "failed" ->
            [idx EXCEPT
                !.toast = [title |-> "Search failed",
                           description |-> <<call.error>>,
                           variant |-> "destructive"],
                !.loading = FALSE]
      [] OTHER -> idx

\* Index.handleSearch(query, filters) up to its await, called by BookSearch
\* for a submitted query or a changed filter.  The search page is rendered
\* only while no reader is.  Two calls at most are followed: a third is
\* not issued while two are awaited.
HandleSearch ==
    /\ ~mounted
    /\ ~(InFlight(search) /\ InFlight(earlier))
    /\ earlier' = IF InFlight(search) THEN search ELSE earlier
    /\ search' = searchBooksCalled
    /\ index' = [index EXCEPT !.loading = TRUE, !.currentPage = 1]
    /\ UNCHANGED readerVars

\* the request to Gutenberg of the call issued last settles
LatestGutenbergSettles(outcome, response) ==
    /\ search.pc = "gutenberg"
    /\ \E call \in {gutenbergSettled(search, outcome, response)} :
          /\ search' = call
          /\ index' = handleSearchResumed(index, call)
    /\ UNCHANGED <<readerVars, earlier>>

\* the request to Open Library of the call issued last settles
LatestOpenLibrarySettles(outcome, response) ==
    /\ search.pc = "openlibrary"
    /\ \E call \in {openLibrarySettled(search, outcome, response)} :
          /\ search' = call
          /\ index' = handleSearchResumed(index, call)
    /\ UNCHANGED <<readerVars, earlier>>

\* the request to Gutenberg of the call issued before it settles
EarlierGutenbergSettles(outcome, response) ==
    /\ earlier.pc = "gutenberg"
    /\ \E call \in {gutenbergSettled(earlier, outcome, response)} :
          /\ earlier' = call
          /\ index' = handleSearchResumed(index, call)
    /\ UNCHANGED <<readerVars, search>>

\* the request to Open Library of the call issued before it settles
EarlierOpenLibrarySettles(outcome, response) ==
    /\ earlier.pc = "openlibrary"
    /\ \E call \in {openLibrarySettled(earlier, outcome, response)} :
          /\ earlier' = call
          /\ index' = handleSearchResumed(index, call)
    /\ UNCHANGED <<readerVars, search>>

\* BookCard.getAvailableFormats: the places of the keys that hold epub,
\* txt, html or pdf
getAvailableFormats(b) ==
    {j \in 1..Len(b.formats) :
        \E ext \in {"epub", "txt", "html", "pdf"} : Includes(b.formats[j].key, ext)}

\* url.includes('gutenberg.org'): of the URLs of the catalogues all but
\* those of Open Library
IncludesGutenbergOrg(url) == url # <<>> /\ url[1] # "https://openlibrary.org"

\* Index.handleDownload(book, format) with BookService.downloadBook: a
\* link is clicked for a URL of Gutenberg, the file is asked of the relay
\* for any other (outcome is what becomes of that request, taken with the
\* click as one step); the toast tells which
handleDownload(idx, b, j, outcome) ==
    IF IncludesGutenbergOrg(b.formats[j].url) \/ Succeeded(outcome)
    THEN [idx EXCEPT
            !.toast = [title |-> "Download started",
                       description |->
                           <<"Downloading \"">> \o b.title \o <<"\" in ">>
                           \o <<ToUpperCase(b.formats[j].key[Len(b.formats[j].key)])>>
                           \o <<" format">>,
                       variant |-> "default"]]
    ELSE [idx EXCEPT
            !.toast = [title |-> "Download failed",
                       description |->
                           <<"Failed to download book - try the direct link instead">>,
                       variant |-> "destructive"]]

\* the button labelled Read of the k-th card of the grid is clicked: its
\* onClick calls onDownload(book, getAvailableFormats()[0])
ReadControl(k, outcome) ==
    /\ ~mounted
    /\ k \in 1..Len(index.books)
    /\ getAvailableFormats(index.books[k]) # {}
    /\ index' = handleDownload(index, index.books[k],
                               FirstIdx(getAvailableFormats(index.books[k])), outcome)
    /\ UNCHANGED <<readerVars, search, earlier>>

\* what the services answer in the searches of the page
PageGutenbergResponses == {r \in GutenbergResponses : r.count \in {1, 10} /\ ~r.next}

PageOpenLibraryResponses == {r \in OpenLibraryResponses : r.numFound \in {0, 2}}

PageOutcomes == {"ok", "http_error"}

IndexNext ==
    \/ HandleSearch
    \/ \E o \in PageOutcomes, r \in PageGutenbergResponses : LatestGutenbergSettles(o, r)
    \/ \E o \in PageOutcomes, r \in PageOpenLibraryResponses : LatestOpenLibrarySettles(o, r)
    \/ \E o \in PageOutcomes, r \in PageGutenbergResponses : EarlierGutenbergSettles(o, r)
    \/ \E o \in PageOutcomes, r \in PageOpenLibraryResponses : EarlierOpenLibrarySettles(o, r)
    \/ \E k \in 1..resultLimit, o \in PageOutcomes : ReadControl(k, o)

IndexSpec == Init /\ [][IndexNext]_vars

----------------------------------------------------------------------------
(* Every retrieval attempt eventually resolves: fetch() and text() settle. *)

Settle ==
    \/ \E o \in Outcomes, body \in DirectBodies : ResolveDirect(o, body)
    \/ \E o \in Outcomes, body \in ProxyBodies : ResolveProxy(o, body)

LiveSpec == Spec /\ WF_vars(Settle)

----------------------------------------------------------------------------
(* Properties                                                              *)

Max(a, b) == IF a >= b THEN a ELSE b

Min(a, b) == IF a <= b THEN a ELSE b

\* index of the last page when an empty book counts as one empty page
LastPage(total) == Max(total, 1) - 1

\* t occurs in s as a run of consecutive lexemes
ContainsSeq(s, t) ==
    \E i \in 0..(Len(s) - Len(t)) : SubSeq(s, i + 1, i + Len(t)) = t

\* no key of the map contains "html" or "text": nothing in the selection
\* order matches
NoReadableKey(formats) ==
    \A j \in 1..Len(formats) :
        ~Includes(formats[j].key, "html") /\ ~Includes(formats[j].key, "text")

\* C1: in every Ready state the page index satisfies
\* 0 <= currentPage < totalPages (so an empty text is shown as one page).
C1_PageIndexInRange == Ready => (0 <= currentPage /\ currentPage < totalPages)

\* C2: a seek in a Ready session sets currentPage to the requested index
\* clamped into [0, totalPages - 1], whatever the index is (negative, past
\* the last page, not a number).
C2_SeekClamps ==
    [][\A v \in SliderValues :
          Seek(v) =>
              IF ParseInt(v) = NaN THEN currentPage' \in 0..LastPage(totalPages)
              ELSE currentPage' = Max(0, Min(ParseInt(v), LastPage(totalPages)))]_vars

\* C3: nextPage at the last page and prevPage at page 0 change nothing of
\* the session; at any other page they move currentPage by exactly one and
\* leave totalPages, content, the bookmark flag and the settings alone.
C3_PagingSteps ==
    [][/\ lastOp' = "nextPage" =>
            IF currentPage = LastPage(totalPages) THEN UNCHANGED sessionVars
            ELSE /\ currentPage' = currentPage + 1
                 /\ UNCHANGED <<totalPages, content, isBookmarked, settings>>
       /\ lastOp' = "prevPage" =>
            IF currentPage = 0 THEN UNCHANGED sessionVars
            ELSE /\ currentPage' = currentPage - 1
                 /\ UNCHANGED <<totalPages, content, isBookmarked, settings>>]_vars

\* the URL stored under key, and the keys of the map that hold key
UrlUnder(formats, key) ==
    formats[CHOOSE j \in 1..Len(formats) : formats[j].key = key].url

HasKey(formats, key) == \E j \in 1..Len(formats) : formats[j].key = key

\* C4: the source URL of an open is the value under text/html if that key
\* is present, else under text/plain; charset=utf-8, else under text/plain,
\* else under the first key in map order that contains html or text.
C4_SelectionPriority ==
    mounted =>
        LET f == book.formats
            named == {j \in 1..Len(f) :
                         Includes(f[j].key, "html") \/ Includes(f[j].key, "text")}
        IN  /\ HasKey(f, KeyHtml) => load.contentUrl = UrlUnder(f, KeyHtml)
            /\ ~HasKey(f, KeyHtml) /\ HasKey(f, KeyPlainUtf8)
                 => load.contentUrl = UrlUnder(f, KeyPlainUtf8)
            /\ ~HasKey(f, KeyHtml) /\ ~HasKey(f, KeyPlainUtf8) /\ HasKey(f, KeyPlain)
                 => load.contentUrl = UrlUnder(f, KeyPlain)
            /\ ~HasKey(f, KeyHtml) /\ ~HasKey(f, KeyPlainUtf8) /\ ~HasKey(f, KeyPlain)
               /\ named # {}
                 => load.contentUrl = f[CHOOSE j \in named : \A k \in named : j <= k].url

\* a reader opened on a map that lists text/plain, then the charset key,
\* then text/html, and that selected the text/html URL
C4_Witness ==
    /\ mounted
    /\ Len(book.formats) = 3
    /\ book.formats[1].key = KeyPlain
    /\ book.formats[2].key = KeyPlainUtf8
    /\ book.formats[3].key = KeyHtml
    /\ load.contentUrl = UrlHtml

\* C5: an open of a book whose formats map is empty or has no matching key
\* issues no fetch at all, direct or through a relay.
C5_NoRetrievalWithoutFormat ==
    mounted /\ NoReadableKey(book.formats) => attempts = <<>> /\ load.pc = "done"

\* a reader opened on a map that has keys, none of them readable
C5_Witness ==
    /\ mounted
    /\ lastOp = "open"
    /\ book.formats # <<>>
    /\ NoReadableKey(book.formats)
    /\ attempts = <<>>

\* C6: an open ends in Error exactly when no format key matched: then the
\* session is in Error and not Ready; when a key matched it is never in
\* Error.
C6_ErrorIffNoFormat ==
    mounted /\ ~loading => (Failed <=> NoReadableKey(book.formats))

AllFailed ==
    /\ load.pc = "done"
    /\ Len(attempts) = Len(corsProxies) + 1
    /\ \A i \in 1..Len(attempts) : attempts[i].result = "failed"

\* C8: when a URL was selected and the direct fetch and every relay
\* failed, the session is Ready with no error, and its content is the
\* fallback passage with the book's title and authors, processed as markup.
C8_FallbackWhenAllFail ==
    mounted /\ AllFailed =>
        /\ Ready
        /\ error = null
        /\ handed = [called |-> TRUE, text |-> generateDemoContent(book),
                     contentUrl |-> DemoUrl]
        /\ content = NormalizeMarkup(generateDemoContent(book))
        /\ ContainsSeq(content, book.title)
        /\ ContainsSeq(content, JoinAuthors(book.authors, 1))
        /\ ContainsSeq(content, <<DemoBody[Len(DemoBody)]>>)

\* the last relay has just failed for a book with two authors
C8_Witness ==
    /\ mounted
    /\ AllFailed
    /\ lastOp = "resolve"
    /\ Len(book.authors) = 2
    /\ totalPages = 1

\* C9: when a relay of the list answers with success and a JSON envelope
\* with a contents field, the text handed on is the value of contents.
C9_EnvelopeUnwrapped ==
    \A i \in 2..Len(attempts) :
        attempts[i].result = "ok" /\ attempts[i].body.wrap = "json"
            => handed.text = attempts[i].body.payload

\* C10: provided every fetch settles, every open leaves Loading.
C10_LeavesLoading == Loading ~> (mounted /\ ~loading)

\* a relay's answer has ended the loading of an open
C10_Witness ==
    /\ mounted
    /\ ~loading
    /\ lastOp = "resolve"
    /\ Len(attempts) = 3
    /\ handed.contentUrl = load.contentUrl

----------------------------------------------------------------------------
(* Reading progress                                                        *)

\* the record the storage holds for the open book, <<>> when it holds none
Stored == getReadingProgress(localStorage, book.id)

Clamp(page, total) == Max(0, Min(page, LastPage(total)))

\* C11: once an open has brought the reader to its page, the page index and
\* the bookmark flag are those of the stored record of the book (the index
\* clamped into the valid range), and page 0 without bookmark only when the
\* storage holds no record for the book.
C11_RestoresProgress ==
    (Ready /\ lastOp \in {"open", "resolve"}) =>
        IF Stored = <<>>
        THEN currentPage = 0 /\ ~isBookmarked
        ELSE /\ Stored[1].page # <<>>
             /\ currentPage = Clamp(Stored[1].page[1], totalPages)
             /\ isBookmarked = Stored[1].isBookmarked

\* C12: every nextPage, prevPage or seek that changes the page index leaves
\* in the storage a record for the open book that holds the new page index
\* and the current bookmark flag.
C12_PageChangePersisted ==
    [][(lastOp' \in {"nextPage", "prevPage", "seek"}
            /\ currentPage' # currentPage
            /\ currentPage' \in 0..LastPage(totalPages)) =>
        /\ Stored' # <<>>
        /\ Stored'[1].page = JsonNumber(currentPage')
        /\ Stored'[1].isBookmarked = isBookmarked']_vars

\* C13: toggleBookmark flips the bookmark flag, leaves the page index, the
\* page count and the content as they were, and leaves in the storage a
\* record for the open book that holds the new flag.
C13_ToggleBookmarkPersisted ==
    [][lastOp' = "toggleBookmark" =>
        /\ isBookmarked' = ~isBookmarked
        /\ UNCHANGED <<currentPage, totalPages, content>>
        /\ Stored' # <<>>
        /\ Stored'[1].isBookmarked = isBookmarked']_vars

\* What toggleBookmark does do: the flip and the frame, without the storage
ToggleBookmarkFlips ==
    [][lastOp' = "toggleBookmark" =>
        /\ isBookmarked' = ~isBookmarked
        /\ UNCHANGED <<currentPage, totalPages, content, localStorage>>]_vars

----------------------------------------------------------------------------
(* Settings                                                                *)

\* the text of the page on the screen
PageText == getCurrentPageContent(content, currentPage)

\* C14: a change of font size, line height, theme or font family puts the
\* value into its field of the settings and leaves the other fields, the
\* page count, the page index, the bookmark flag, the content and the text
\* of the page on the screen, cut with the budget of 400 words, as they
\* were.
C14_SettingsFrame ==
    [][lastOp' = "updateSettings" =>
        /\ \E in \in SettingInputs :
              settings' = [settings EXCEPT ![in[1]] = in[2]]
        /\ UNCHANGED <<totalPages, currentPage, isBookmarked, content>>
        /\ PageText' = PageText]_vars

\* a setting changed on a page other than the first of a longer text
C14_Witness ==
    /\ lastOp = "updateSettings"
    /\ settings # DefaultSettings
    /\ totalPages > 1
    /\ currentPage = 1
    /\ PageText # <<>>

----------------------------------------------------------------------------
(* Closing                                                                 *)

\* The reader is never closed with a retrieval in flight: the loading
\* screen renders no control that calls onClose, so a close finds
\* loadBookContent finished, and no fetch is pending while no reader is
\* rendered.
ClosedOnlyWhenSettled ==
    /\ lastOp = "close" => load = Idle
    /\ ~mounted => load.pc = "idle"
    /\ load.pc \in {"direct", "proxy"} => mounted /\ loading

----------------------------------------------------------------------------
(* Pagination                                                              *)

\* The paragraphs of a text: what split(/\n\n+/) cuts it into.  The empty
\* text has none.
Paragraphs(text) == IF text = <<>> THEN <<>> ELSE SplitParagraphs(text, 1)

RECURSIVE Resplit(_, _)
\* the paragraphs of the pages from page n on, in order
Resplit(pages, n) ==
    IF n > Len(pages) THEN <<>>
    ELSE Paragraphs(pages[n]) \o Resplit(pages, n + 1)

\* processBookContent has normalised and paginated a delivered text
Processed == handed.called /\ ~loading

\* paragraphs without the whitespace at their two ends
Trimmed(paragraphs) == [k \in 1..Len(paragraphs) |-> Trim(paragraphs[k])]

\* C16: the pages of the normalised text, taken in order and split again on
\* blank lines, give the paragraphs of the normalised text, each once and
\* in their order (compared without the whitespace at a paragraph's ends,
\* which closing a page trims).
C16_PaginationLossless ==
    Processed =>
        Trimmed(Resplit(Paginate(content), 1)) = Trimmed(Paragraphs(content))

Occurrences(paragraphs, v) ==
    Cardinality({k \in 1..Len(paragraphs) : paragraphs[k] = v})

\* a page that holds a paragraph of more than wordsPerPage words holds no
\* other paragraph
OversizedAlone(pages) ==
    \A n \in 1..Len(pages) :
        \A q \in {Paragraphs(pages[n])} :
            (\E k \in 1..Len(q) : ParagraphWords(q[k]) > wordsPerPage)
                => Len(q) = 1

\* every paragraph of `paragraphs` in `among` is found on the pages as
\* often as it occurs in the text
EachOnOnePage(paragraphs, onPages, among) ==
    \A k \in among :
        Occurrences(onPages, paragraphs[k]) = Occurrences(paragraphs, paragraphs[k])

\* C17: every paragraph of the normalised text is found, whole, on exactly
\* one page, and a paragraph of more than 400 words has its page to itself.
C17_ParagraphsWhole ==
    Processed =>
        \A pages \in {Paginate(content)} :
            \A paragraphs \in {Trimmed(Paragraphs(content))} :
                /\ EachOnOnePage(paragraphs, Trimmed(Resplit(pages, 1)),
                                 1..Len(paragraphs))
                /\ OversizedAlone(pages)

\* What the paginator does keep: every paragraph of a page is a whole
\* paragraph of the text, every paragraph of the text that is not blank is
\* on exactly one page, and an oversized paragraph is alone on its page.
ParagraphsNeverSplit ==
    Processed =>
        \A pages \in {Paginate(content)} :
            \A paragraphs \in {Trimmed(Paragraphs(content))} :
                \A onPages \in {Trimmed(Resplit(pages, 1))} :
                    /\ \A k \in 1..Len(onPages) :
                          Occurrences(paragraphs, onPages[k]) >= 1
                    /\ EachOnOnePage(paragraphs, onPages,
                          {k \in 1..Len(paragraphs) : paragraphs[k] # <<>>})
                    /\ OversizedAlone(pages)

----------------------------------------------------------------------------
(* Normalisation                                                           *)

\* the text was normalised by the markup branch
MarkupKind == Includes(handed.contentUrl, "html") \/ handed.contentUrl = DemoUrl

\* C18: the normaliser of either kind, applied to its own output, returns
\* that output unchanged.
C18_NormalizeIdempotent ==
    Processed => processBookContent(content, handed.contentUrl).content = content

\* the entities the markup branch decodes
DecodedEntities == {"nbsp", "amp", "lt", "gt", "quot", "apos"}

NoTag(s) == \A j \in 1..Len(s) : TagEnd(s, j) = 0

NoEntity(s) ==
    \A j \in 1..Len(s) : \A name \in DecodedEntities : EntityEnd(s, j, name) = 0

NoNewlineRun(s) ==
    \A j \in 1..(Len(s) - 2) : ~(s[j] = "\n" /\ s[j+1] = "\n" /\ s[j+2] = "\n")

ExampleNormalized ==
    <<"===", " ", "Intro", " ", "===", "\n", "\n",
      "Hello", " ", "world.", "\n", "\n", "Bye.">>

\* what the markup branch does establish: its whitespace rules and the
\* example
MarkupWhitespace ==
    (Processed /\ MarkupKind) =>
        /\ NoNewlineRun(content)
        /\ content = Trim(content)
        /\ handed.text = ExampleMarkup => content = ExampleNormalized

\* C19: the text the markup branch produces holds no tag and no entity of
\* the decoded set, no run of three newlines and no whitespace at its two
\* ends, and the example text normalises to its banner and two paragraphs.
C19_MarkupClean ==
    (Processed /\ MarkupKind) =>
        /\ NoTag(content)
        /\ NoEntity(content)
        /\ NoNewlineRun(content)
        /\ content = Trim(content)
        /\ handed.text = ExampleMarkup => content = ExampleNormalized

----------------------------------------------------------------------------
(* Search                                                                  *)

\* C20: a search asks Gutenberg first, and it asks Open Library, after
\* Gutenberg and once, exactly when Gutenberg has returned fewer than 10
\* books; when Gutenberg has returned 10 or more, or nothing yet, or has
\* failed, Open Library is not asked.
C20_SecondaryIffShort ==
    /\ search.calls # <<>> => search.calls[1] = "gutenberg"
    /\ \A k \in 2..Len(search.calls) : k = 2 /\ search.calls[k] = "openlibrary"
    /\ (\E k \in 1..Len(search.calls) : search.calls[k] = "openlibrary")
           <=> (search.returned /\ Len(search.gutenbergBooks.books) < 10)

\* Gutenberg returned 9 books and the search ended with both services asked
C20_Witness ==
    /\ search.pc = "done"
    /\ Len(search.gutenbergBooks.books) = 9
    /\ search.calls = <<"gutenberg", "openlibrary">>

\* Gutenberg returned 10 books and the search ended with Gutenberg alone
TenBooksSuffice ==
    /\ search.pc = "done"
    /\ Len(search.gutenbergBooks.books) = 10
    /\ search.calls = <<"gutenberg">>

----------------------------------------------------------------------------
(* Page boundaries                                                         *)

\* the whitespace-delimited tokens of a text
Words(t) == SumWords(t, 1)

\* the pages are not empty, a page of two or more paragraphs holds at most
\* wordsPerPage words, and the first paragraph of a page would not have
\* fit on the page before it
BoundariesExact(pages) ==
    /\ \A n \in 1..Len(pages) : pages[n] # <<>>
    /\ \A n \in 1..Len(pages) :
          Len(Paragraphs(pages[n])) >= 2 => Words(pages[n]) <= 400
    /\ \A n \in 1..(Len(pages) - 1) :
          Words(pages[n]) + Words(Paragraphs(pages[n + 1])[1]) > 400

\* C24: no page of the normalised text is empty, a page of two or more
\* paragraphs holds at most 400 words, no page ends where the next
\* paragraph would still have fit within 400 words, and the empty text has
\* no page.
C24_PageBoundaries ==
    Processed =>
        \A pages \in {Paginate(content)} :
            /\ BoundariesExact(pages)
            /\ content = <<>> => pages = <<>>

\* the same for the texts that have no paragraph of whitespace only
BoundariesWithoutBlankParagraphs ==
    (Processed /\ \A k \in 1..Len(Paragraphs(content)) :
                     Trim(Paragraphs(content)[k]) # <<>>) =>
        \A pages \in {Paginate(content)} :
            /\ BoundariesExact(pages)
            /\ content = <<>> => pages = <<>>

----------------------------------------------------------------------------
(* The page count of the load and the pages of the render                  *)

----------------------------------------------------------------------------
(* Entities                                                                *)

\* C26: the markup branch decodes the escaped form of an entity once:
\* '&amp;lt;', '&amp;gt;', '&amp;quot;' and '&amp;apos;' normalise to
\* '&lt;', '&gt;', '&quot;' and '&apos;', not to the character.
C26_DecodedOnce ==
    (Processed /\ MarkupKind /\ handed.text \in EscapedEntities) =>
        content = <<"&">> \o SubSeq(handed.text, 4, 5)

\* decoding comes after the tag removal: the tags it produces stay
DecodedAfterTagRemoval ==
    (Processed /\ MarkupKind /\ handed.text = EscapedTagText) =>
        content = <<"<", "b", ">", "bold", "<", "/", "b", ">">>

----------------------------------------------------------------------------
(* Source kind                                                             *)

\* the key of formats the source URL was selected under is text/html
UnderHtmlKey(formats) == HasKey(formats, KeyHtml)

\* the source URL was selected under one of the two text/plain keys, or
\* under a first readable key that names plain text
UnderPlainKey(formats) ==
    /\ ~HasKey(formats, KeyHtml)
    /\ \/ HasKey(formats, KeyPlainUtf8)
       \/ HasKey(formats, KeyPlain)
       \/ /\ readableFormats(formats) # {}
          /\ Includes(formats[FirstIdx(readableFormats(formats))].key, "plain")

\* a response, direct or of a relay, was processed as the selected source
Retrieved == Processed /\ handed.contentUrl # DemoUrl

\* C27: what was retrieved for a source selected under the text/html key
\* is normalised as markup, and what was retrieved for a source selected
\* under a plain-text key as plain text, by the direct fetch and by every
\* relay alike.
C27_KindFromSelectedKey ==
    Retrieved =>
        /\ UnderHtmlKey(book.formats) => content = NormalizeMarkup(handed.text)
        /\ UnderPlainKey(book.formats) => content = NormalizePlain(handed.text)

\* the kind is the same on every retrieval path: it is read off the
\* selected URL, whichever fetch delivered the text
KindFromSelectedUrl ==
    Retrieved =>
        /\ handed.contentUrl = load.contentUrl
        /\ content = (IF Includes(load.contentUrl, "html")
                      THEN NormalizeMarkup(handed.text)
                      ELSE NormalizePlain(handed.text))

\* on the records of Gutenberg, whose text/html URLs hold 'html' and whose
\* text/plain URLs do not, the kind follows the key
KindFromKeyOnGutenberg ==
    (Retrieved /\ book.title \in {Catalogue[1].title, Catalogue[2].title}) =>
        /\ UnderHtmlKey(book.formats) => content = NormalizeMarkup(handed.text)
        /\ UnderPlainKey(book.formats) => content = NormalizePlain(handed.text)

----------------------------------------------------------------------------
(* Search results                                                          *)

\* C21: a search that has returned has returned at most 20 books, both
\* when it asked Open Library and when Gutenberg alone gave 10 or more.
C21_AtMostTwenty ==
    search.pc = "done" => Len(search.result.books) <= 20

\* with Open Library asked the result has at most 19 books: fewer than 10
\* of Gutenberg and at most 10 of Open Library
AtMostTwentyWhenCombined ==
    (search.pc = "done" /\ search.calls = <<"gutenberg", "openlibrary">>)
        => Len(search.result.books) <= 19

\* the places of a list whose key no earlier place has
FirstOfKey(books) ==
    {k \in 1..Len(books) : \A j \in 1..(k - 1) : BookKey(books[j]) # BookKey(books[k])}

\* the books at the places S of a list, in the order of the list
AtPlaces(books, S) ==
    [i \in 1..Cardinality(S) |->
        books[CHOOSE k \in S : Cardinality({j \in S : j <= k}) = i]]

\* what the services returned, Gutenberg's books first
Returned == search.gutenbergBooks.books \o search.openLibraryBooks.books

\* C22: no two books a search has returned have the same key of lower-case
\* title and lower-case first author; the books returned are, in the order
\* the services gave them with Gutenberg's first, the first book of every
\* key.
C22_NoDuplicateKeys ==
    search.pc = "done" =>
        /\ \A a, b \in 1..Len(search.result.books) :
              a # b => BookKey(search.result.books[a]) # BookKey(search.result.books[b])
        /\ search.result.books = AtPlaces(Returned, FirstOfKey(Returned))

\* with Open Library asked the claim holds: the two lists are deduplicated
\* together
DeduplicatedWhenCombined ==
    (search.pc = "done" /\ search.calls = <<"gutenberg", "openlibrary">>) =>
        /\ \A a, b \in 1..Len(search.result.books) :
              a # b => BookKey(search.result.books[a]) # BookKey(search.result.books[b])
        /\ search.result.books = AtPlaces(Returned, FirstOfKey(Returned))

\* Gutenberg gave 9 books and Open Library 10, one of them a work that
\* Gutenberg gave too, under a title and an author in capitals
DuplicatesMet ==
    /\ search.pc = "done"
    /\ Len(search.gutenbergBooks.books) = 9
    /\ Len(search.openLibraryBooks.books) = 10
    /\ Len(search.result.books) = 18

----------------------------------------------------------------------------
(* The search page                                                         *)

\* a searchBooks call ends on a response of a service that is not ok
ProviderFailure(before, after) ==
    /\ InFlight(before)
    /\ after.pc = "failed"
    /\ after.caught \in {"Gutenberg API request failed",
                         "Open Library API request failed"}

\* C23: when a service answers a search with a response that is not ok,
\* Gutenberg or Open Library after Gutenberg, the search fails, the toast
\* shown is the failure toast with the message of that service's error,
\* and the books displayed stay as they were.
C23_ProviderFailureShown ==
    [][\A c \in {<<search, search'>>, <<earlier, earlier'>>} :
          ProviderFailure(c[1], c[2]) =>
              /\ index'.toast.title = "Search failed"
              /\ index'.toast.description = <<c[2].caught>>
              /\ index'.books = index.books]_vars

\* what does hold: the search fails as a whole, the failure toast carries
\* the message of the error searchBooks throws in place of the service's,
\* and the books displayed stay as they were
ProviderFailureShownGeneric ==
    [][\A c \in {<<search, search'>>, <<earlier, earlier'>>} :
          ProviderFailure(c[1], c[2]) =>
              /\ index'.toast.title = "Search failed"
              /\ index'.toast.description = <<"Failed to search books. Please try again.">>
              /\ index'.toast.description = <<c[2].error>>
              /\ index'.books = index.books]_vars

\* C29: the loading flag is set exactly while a search is awaited, and
\* once none is awaited the books displayed are those of the search issued
\* last, if it has returned.
C29_LatestSearchWins ==
    /\ index.loading <=> (InFlight(search) \/ InFlight(earlier))
    /\ (~InFlight(search) /\ ~InFlight(earlier) /\ search.pc = "done")
           => index.books = search.result.books

\* with one search at a time both parts hold
OneSearchAtATime ==
    earlier.pc = "idle" =>
        /\ index.loading <=> InFlight(search)
        /\ search.pc = "done" => index.books = search.result.books

\* C30: a click on the Read control of a card of the results opens the
\* reader on the book of that card.
C30_ReadOpensReader ==
    [][\A k \in 1..Len(index.books), o \in PageOutcomes :
          ReadControl(k, o) => mounted' /\ book' = index.books[k]]_vars

\* the click starts a download and leaves the page as it is: no reader
ReadControlDownloads ==
    [][\A k \in 1..Len(index.books), o \in PageOutcomes :
          ReadControl(k, o) =>
              /\ ~mounted'
              /\ index'.toast.title \in {"Download started", "Download failed"}
              /\ index'.books = index.books]_vars

\* nothing on the search page mounts a reader
NoReaderFromIndex == ~mounted

====
